---- MODULE Spec2Model ----
(***************************************************************************)
(* Model of the front-end server configuration loader                      *)
(* (appengine/server/config.go): the process-wide `config` value, the      *)
(* appConfig structure and readConfig, which opens config.json, decodes it *)
(* with encoding/json INTO the global and then fills three defaults.       *)
(*                                                                         *)
(* readConfig is modelled statement by statement (open, decode, the three  *)
(* defaulting ifs, return with the deferred Close), so that the value of   *)
(* the global between two statements is a state of the model.              *)
(*                                                                         *)
(* Spec is the process as it is started: readConfig runs once, on the      *)
(* zero-valued config.  SpecReload lets readConfig be invoked again, any   *)
(* number of times, over any file contents.                                *)
(***************************************************************************)
EXTENDS Naturals, FiniteSets, Sequences, TLC

VARIABLES
    config,   \* the global appConfig instance (config.go:29)
    pc,       \* position inside readConfig; "idle" when no call is running
    r,        \* content behind the handle returned by os.Open, NoFile if none
    handles,  \* number of handles to config.json that are open
    err,      \* readConfig's return value: "none" (no result yet), "nil", "open", "decode"
    pre,      \* config as it was when the running call was entered
    loaded,   \* TRUE once some readConfig call has returned nil
    called    \* TRUE once readConfig has been invoked

vars == <<config, pc, r, handles, err, pre, loaded, called>>

----------------------------------------------------------------------------
(* Go values.                                                              *)

\* A Go string that holds a byte sequence that is not valid UTF-8, and the
\* string encoding/json makes of it (each bad byte becomes U+FFFD).
InvalidUTF8 == {"/a\\xff/"}

ToValidUTF8(s) == IF s = "/a\\xff/" THEN "/a\\ufffd/" ELSE s

EmptyKV == [k \in {} |-> ""]

\* map[string]string: nil is distinct from an allocated map without entries.
NilMap == [isNil |-> TRUE, kv |-> EmptyKV]

MakeMap(f) == [isNil |-> FALSE, kv |-> f]

\* The zero value of appConfig: what `var config appConfig` holds at start.
ZeroConfig ==
    [Redirects |-> NilMap, Buckets |-> NilMap,
     WebRoot |-> "", Index |-> "", HookPath |-> "", GCSBase |-> ""]

\* weasel.DefaultStorage.Base, the base URL of the injected storage client.
DefaultStorageBase == "https://storage.googleapis.com"

----------------------------------------------------------------------------
(* JSON values and documents.                                              *)

JAbsent == [t |-> "absent", s |-> "", kv |-> EmptyKV]
JNull == [t |-> "null", s |-> "", kv |-> EmptyKV]
JNumber == [t |-> "number", s |-> "", kv |-> EmptyKV]
JString(s) == [t |-> "string", s |-> s, kv |-> EmptyKV]
JObject(f) == [t |-> "object", s |-> "", kv |-> f]

EmptyDoc ==
    [redirects |-> JAbsent, buckets |-> JAbsent, webroot |-> JAbsent,
     index |-> JAbsent, hook |-> JAbsent, gcs |-> JAbsent]

NoFile == [kind |-> "none", doc |-> EmptyDoc]

----------------------------------------------------------------------------
(* encoding/json, as readConfig uses it (config.go:57) and as the struct   *)
(* tags of appConfig (config.go:36-46) drive it.                           *)

\* Decoding an object into a map that already has entries keeps the entries
\* whose keys the object does not mention.
Merge(old, new) ==
    [k \in (DOMAIN old) \cup (DOMAIN new) |->
        IF k \in DOMAIN new THEN new[k] ELSE old[k]]

\* A string field: a JSON string is stored (unquoted, coerced to valid
\* UTF-8); an absent key, null, or a value of another type leaves the field.
DecodeString(old, j) == IF j.t = "string" THEN ToValidUTF8(j.s) ELSE old

\* A map field: an object is merged into the map (allocated if nil), null
\* sets the map to nil, an absent key or another type leaves the field.
DecodeMap(old, j) ==
    CASE j.t = "object" -> MakeMap(Merge(old.kv, j.kv))
      [] j.t = "null" -> NilMap
      [] OTHER -> old

\* Variant: the tags of Index and HookPath exchanged.
UnmarshalSwapped(c, doc) ==
    [Redirects |-> DecodeMap(c.Redirects, doc.redirects),
     Buckets |-> DecodeMap(c.Buckets, doc.buckets),
     WebRoot |-> DecodeString(c.WebRoot, doc.webroot),
     Index |-> DecodeString(c.Index, doc.hook),
     HookPath |-> DecodeString(c.HookPath, doc.index),
     GCSBase |-> DecodeString(c.GCSBase, doc.gcs)]

\* The decoder stores into the fields of the value it is given, key by key;
\* a key that is absent leaves its field alone, a value of the wrong type is
\* skipped and decoding goes on with the next key.
Unmarshal(c, doc) ==
    [Redirects |-> DecodeMap(c.Redirects, doc.redirects),
     Buckets |-> DecodeMap(c.Buckets, doc.buckets),
     WebRoot |-> DecodeString(c.WebRoot, doc.webroot),
     Index |-> DecodeString(c.Index, doc.index),
     HookPath |-> DecodeString(c.HookPath, doc.hook),
     GCSBase |-> DecodeString(c.GCSBase, doc.gcs)]

HasDefaultBucket(j) == j.t = "object" => "default" \in DOMAIN j.kv

\* Variant: a decoder that also insists on the "default" bucket.
UnmarshalTypeErrorValidating(doc) ==
    \/ doc.redirects.t \notin {"absent", "null", "object"}
    \/ doc.buckets.t \notin {"absent", "null", "object"}
    \/ ~HasDefaultBucket(doc.buckets)
    \/ \E k \in {"webroot", "index", "hook", "gcs"} :
          doc[k].t \notin {"absent", "null", "string"}

\* Decode reports an UnmarshalTypeError when some key holds a value that
\* does not fit its field. Nothing else about the content is looked at.
UnmarshalTypeError(doc) ==
    \/ doc.redirects.t \notin {"absent", "null", "object"}
    \/ doc.buckets.t \notin {"absent", "null", "object"}
    \/ \E k \in {"webroot", "index", "hook", "gcs"} :
          doc[k].t \notin {"absent", "null", "string"}

\* Marshal of a map: nil encodes as null; keys and values are coerced to
\* valid UTF-8 (keys that collide after coercion are not in the domain).
EncodeMap(m) ==
    IF m.isNil THEN JNull
    ELSE JObject([k2 \in {ToValidUTF8(k) : k \in DOMAIN m.kv} |->
            ToValidUTF8(m.kv[CHOOSE k \in DOMAIN m.kv : ToValidUTF8(k) = k2])])

\* Marshal of an appConfig: no field is tagged omitempty, so every key is
\* written, strings coerced to valid UTF-8.
Encode(c) ==
    [redirects |-> EncodeMap(c.Redirects),
     buckets |-> EncodeMap(c.Buckets),
     webroot |-> JString(ToValidUTF8(c.WebRoot)),
     index |-> JString(ToValidUTF8(c.Index)),
     hook |-> JString(ToValidUTF8(c.HookPath)),
     gcs |-> JString(ToValidUTF8(c.GCSBase))]

----------------------------------------------------------------------------
(* The defaulting statements of readConfig (config.go:60-68).              *)

\* Variant: the default assigned without the emptiness test.
SetDefaultWebRootAlways(c) == [c EXCEPT !.WebRoot = "/"]

SetDefaultWebRoot(c) ==
    IF c.WebRoot = "" THEN [c EXCEPT !.WebRoot = "/"] ELSE c

\* Variant: another default path.
SetDefaultHookPathShort(c) ==
    IF c.HookPath = "" THEN [c EXCEPT !.HookPath = "/-/hook"] ELSE c

SetDefaultHookPath(c) ==
    IF c.HookPath = "" THEN [c EXCEPT !.HookPath = "/-/hook/gcs"] ELSE c

SetDefaultGCSBase(c) ==
    IF c.GCSBase = "" THEN [c EXCEPT !.GCSBase = DefaultStorageBase] ELSE c

\* What a call that decodes doc without error makes of a config c.
Loaded(c, doc) ==
    SetDefaultGCSBase(SetDefaultHookPath(SetDefaultWebRoot(Unmarshal(c, doc))))

----------------------------------------------------------------------------
(* The contents config.json may have.                                      *)

BucketsDefault == [k \in {"default"} |-> "b1"]
BucketsNoDefault == [k \in {"x.com"} |-> "b2"]
RedirectsUnchecked ==
    [k \in {"goa.design/a", "goa.design/b"} |->
        IF k = "goa.design/a" THEN "https://goa.design/x/"
        ELSE "https://goa.design/y?q=1"]

Docs ==
    [redirects : {JAbsent, JObject(RedirectsUnchecked)},
     buckets : {JAbsent, JObject(BucketsDefault), JObject(BucketsNoDefault)},
     webroot : {JAbsent, JString(""), JString("/app/"), JNumber},
     index : {JAbsent, JString("index.html")},
     hook : {JAbsent, JString("/hook")},
     gcs : {JAbsent, JString("https://gcs.test")}]

\* appConfig values that are written out with Marshal and read back.
RTConfigs ==
    [Redirects : {NilMap, MakeMap(RedirectsUnchecked)},
     Buckets : {NilMap, MakeMap(EmptyKV), MakeMap(BucketsDefault)},
     WebRoot : {"", "/app/"} \cup InvalidUTF8,
     Index : {"", "index.html"},
     HookPath : {"", "/hook"},
     GCSBase : {"", "https://gcs.test"}]

Missing == [kind |-> "missing", doc |-> EmptyDoc]
Garbage == [kind |-> "garbage", doc |-> EmptyDoc]
NonObject == [kind |-> "nonobject", doc |-> EmptyDoc]

Files ==
    {Missing, Garbage, NonObject}
        \cup {[kind |-> "doc", doc |-> d] : d \in Docs}
        \cup {[kind |-> "doc", doc |-> Encode(c)] : c \in RTConfigs}

\* Decode fails on text that is not JSON (nothing is stored), on a JSON
\* value that is not an object, and on an object with a mistyped value.
DecodeFails(f) == f.kind # "doc" \/ UnmarshalTypeError(f.doc)

----------------------------------------------------------------------------
(* readConfig (config.go:51-70), one action per statement.                 *)

Init ==
    /\ config = ZeroConfig
    /\ pc = "idle"
    /\ r = NoFile
    /\ handles = 0
    /\ err = "none"
    /\ pre = ZeroConfig
    /\ loaded = FALSE
    /\ called = FALSE

\* Variant: the global is cleared on entry.
OpenFailReset(f) ==
    /\ pc = "idle"
    /\ f.kind = "missing"
    /\ called' = TRUE
    /\ pre' = config
    /\ err' = "open"
    /\ config' = ZeroConfig
    /\ UNCHANGED <<pc, r, handles, loaded>>

\* os.Open fails: `return err` before anything else happens (52-55).
OpenFail(f) ==
    /\ pc = "idle"
    /\ f.kind = "missing"
    /\ called' = TRUE
    /\ pre' = config
    /\ err' = "open"
    /\ UNCHANGED <<config, pc, r, handles, loaded>>

\* Variant: the global is cleared on entry.
OpenReset(f) ==
    /\ pc = "idle"
    /\ f.kind # "missing"
    /\ called' = TRUE
    /\ pre' = config
    /\ r' = f
    /\ handles' = handles + 1
    /\ err' = "none"
    /\ pc' = "decode"
    /\ config' = ZeroConfig
    /\ UNCHANGED loaded

\* os.Open succeeds and the Close is deferred (52, 56).
Open(f) ==
    /\ pc = "idle"
    /\ f.kind # "missing"
    /\ called' = TRUE
    /\ pre' = config
    /\ r' = f
    /\ handles' = handles + 1
    /\ err' = "none"
    /\ pc' = "decode"
    /\ UNCHANGED <<config, loaded>>

\* json.NewDecoder(r).Decode(&config) and the `return err` after it (57-59).
Decode ==
    /\ pc = "decode"
    /\ config' = IF r.kind = "doc" THEN Unmarshal(config, r.doc) ELSE config
    /\ IF DecodeFails(r)
         THEN err' = "decode" /\ pc' = "return"
         ELSE err' = err /\ pc' = "webroot"
    /\ UNCHANGED <<r, handles, pre, loaded, called>>

DefaultWebRoot ==
    /\ pc = "webroot"
    /\ config' = SetDefaultWebRoot(config)
    /\ pc' = "hook"
    /\ UNCHANGED <<r, handles, err, pre, loaded, called>>

DefaultHookPath ==
    /\ pc = "hook"
    /\ config' = SetDefaultHookPath(config)
    /\ pc' = "gcs"
    /\ UNCHANGED <<r, handles, err, pre, loaded, called>>

\* The last default and `return nil` (66-69); the deferred Close is pending.
DefaultGCSBase ==
    /\ pc = "gcs"
    /\ config' = SetDefaultGCSBase(config)
    /\ err' = "nil"
    /\ pc' = "return"
    /\ UNCHANGED <<r, handles, pre, loaded, called>>

\* Variant: Close called on the successful path only, not deferred.
ReturnLeakOnError ==
    /\ pc = "return"
    /\ handles' = IF err = "nil" THEN handles - 1 ELSE handles
    /\ r' = NoFile
    /\ pre' = config
    /\ loaded' = (loaded \/ err = "nil")
    /\ pc' = "idle"
    /\ UNCHANGED <<config, err, called>>

\* The deferred r.Close() runs and readConfig hands err to its caller (56).
Return ==
    /\ pc = "return"
    /\ handles' = handles - 1
    /\ r' = NoFile
    /\ pre' = config
    /\ loaded' = (loaded \/ err = "nil")
    /\ pc' = "idle"
    /\ UNCHANGED <<config, err, called>>

Steps ==
    \/ Decode
    \/ DefaultWebRoot
    \/ DefaultHookPath
    \/ DefaultGCSBase
    \/ Return

\* The process as started: readConfig runs once, during start-up.
Next ==
    \/ \E f \in Files : ~called /\ OpenFail(f)
    \/ \E f \in Files : ~called /\ Open(f)
    \/ Steps

Spec == Init /\ [][Next]_vars

\* A process whose callers invoke readConfig again, any number of times and
\* over any file contents.
NextReload ==
    \/ \E f \in Files : OpenFail(f)
    \/ \E f \in Files : Open(f)
    \/ Steps

SpecReload == Init /\ [][NextReload]_vars

TypeOK ==
    /\ pc \in {"idle", "decode", "webroot", "hook", "gcs", "return"}
    /\ err \in {"none", "nil", "open", "decode"}
    /\ handles \in 0..1
    /\ r \in Files \cup {NoFile}
    /\ loaded \in BOOLEAN
    /\ called \in BOOLEAN

----------------------------------------------------------------------------
(* Properties.                                                             *)

\* readConfig has executed `return nil`; only the deferred Close is left.
ReturnsNil == pc = "return" /\ err = "nil"

Omitted(j) == j.t = "absent" \/ (j.t = "string" /\ j.s = "")

Supplied(j) == j.t = "string" /\ j.s # ""

\* C1: when readConfig returns nil at start-up, each of WebRoot, HookPath and
\* GCSBase whose key the document omits or leaves empty holds its default:
\* "/", "/-/hook/gcs" and the storage client's base URL.
C1_DefaultsFilled ==
    ReturnsNil =>
        /\ Omitted(r.doc.webroot) => config.WebRoot = "/"
        /\ Omitted(r.doc.hook) => config.HookPath = "/-/hook/gcs"
        /\ Omitted(r.doc.gcs) => config.GCSBase = DefaultStorageBase

C1_Witness ==
    /\ ReturnsNil
    /\ r.doc.webroot.t = "absent" /\ r.doc.hook.t = "absent" /\ r.doc.gcs.t = "absent"
    /\ r.doc.buckets = JObject(BucketsDefault)
    /\ config.WebRoot = "/" /\ config.HookPath = "/-/hook/gcs"
    /\ config.GCSBase = DefaultStorageBase
    /\ config.Buckets = MakeMap(BucketsDefault)

\* C2: when readConfig returns nil, a non-empty webroot, hook or gcs of the
\* document is the value of its field, unchanged; and a defaulting statement
\* changes nothing but its own field, and that only when it was empty.
C2_ExplicitKept ==
    /\ [](ReturnsNil =>
            /\ Supplied(r.doc.webroot) => config.WebRoot = r.doc.webroot.s
            /\ Supplied(r.doc.hook) => config.HookPath = r.doc.hook.s
            /\ Supplied(r.doc.gcs) => config.GCSBase = r.doc.gcs.s)
    /\ [][/\ pc = "webroot" =>
                \/ config' = config
                \/ /\ config.WebRoot = ""
                   /\ config' = [config EXCEPT !.WebRoot = config'.WebRoot]
          /\ pc = "hook" =>
                \/ config' = config
                \/ /\ config.HookPath = ""
                   /\ config' = [config EXCEPT !.HookPath = config'.HookPath]
          /\ pc = "gcs" =>
                \/ config' = config
                \/ /\ config.GCSBase = ""
                   /\ config' = [config EXCEPT !.GCSBase = config'.GCSBase]]_vars

C2_Witness ==
    /\ ReturnsNil
    /\ r.doc.webroot = JString("/app/") /\ config.WebRoot = "/app/"
    /\ r.doc.hook.t = "absent" /\ config.HookPath = "/-/hook/gcs"
    /\ r.doc.gcs.t = "absent" /\ config.GCSBase = DefaultStorageBase

\* C3: when readConfig returns a decode error, config is field for field
\* what it was before the call.
C3_DecodeErrorLeavesConfig ==
    (pc = "return" /\ err = "decode") => config = pre

\* C4: a call whose open fails returns the open error and leaves config and
\* the handles as they were; nothing is decoded and no default is set.
C4_OpenErrorLeavesConfig ==
    [][(pc = "idle" /\ pc' = "idle") =>
            /\ err' = "open"
            /\ config' = config
            /\ handles' = handles
            /\ r' = r]_vars

C4_Witness ==
    /\ pc = "idle" /\ err = "open"
    /\ loaded
    /\ config.WebRoot = "/app/"

\* C5: after any sequence of calls, a call that returns nil over document D
\* leaves WebRoot, HookPath and GCSBase non-empty and config equal to what D
\* alone determines: D's values, its defaults where D gives none.
C5_FunctionOfDocument ==
    ReturnsNil =>
        /\ config.WebRoot # "" /\ config.HookPath # "" /\ config.GCSBase # ""
        /\ config = Loaded(ZeroConfig, r.doc)

NonEmptyMap(m) == ~m.isNil /\ DOMAIN m.kv # {}

\* cfg equals c on every field of c that is not empty.
Preserved(c, cfg) ==
    /\ NonEmptyMap(c.Redirects) => cfg.Redirects = c.Redirects
    /\ NonEmptyMap(c.Buckets) => cfg.Buckets = c.Buckets
    /\ c.WebRoot # "" => cfg.WebRoot = c.WebRoot
    /\ c.Index # "" => cfg.Index = c.Index
    /\ c.HookPath # "" => cfg.HookPath = c.HookPath
    /\ c.GCSBase # "" => cfg.GCSBase = c.GCSBase

ValidUTF8(s) == s \notin InvalidUTF8

ValidUTF8Map(m) ==
    \A k \in DOMAIN m.kv : ValidUTF8(k) /\ ValidUTF8(m.kv[k])

ValidUTF8Config(c) ==
    /\ ValidUTF8Map(c.Redirects) /\ ValidUTF8Map(c.Buckets)
    /\ ValidUTF8(c.WebRoot) /\ ValidUTF8(c.Index)
    /\ ValidUTF8(c.HookPath) /\ ValidUTF8(c.GCSBase)

\* C6 as stated: for every appConfig c, loading the encoding of c into an
\* unloaded config gives a config equal to c on every non-empty field of c.
C6_RoundTripAnyConfig ==
    (ReturnsNil /\ pre = ZeroConfig) =>
        \A c \in RTConfigs : r.doc = Encode(c) => Preserved(c, config)

\* C6, amended: the same for every appConfig c whose strings are valid UTF-8.
C6_RoundTripValidUTF8 ==
    (ReturnsNil /\ pre = ZeroConfig) =>
        \A c \in RTConfigs :
            (ValidUTF8Config(c) /\ r.doc = Encode(c)) => Preserved(c, config)

FullConfig ==
    [Redirects |-> MakeMap(RedirectsUnchecked), Buckets |-> MakeMap(BucketsDefault),
     WebRoot |-> "/app/", Index |-> "index.html", HookPath |-> "/hook",
     GCSBase |-> "https://gcs.test"]

C6_Witness ==
    /\ ReturnsNil /\ pre = ZeroConfig
    /\ r.doc = Encode(FullConfig)
    /\ config = FullConfig

\* C7 as stated: once a call has returned nil, no step changes config.
C7_LoadedIsTerminal == [][loaded => config' = config]_vars

\* C7, amended: once a call has returned nil, config changes only in the
\* decode and defaulting statements of a later readConfig call.
C7_ChangedOnlyByReload ==
    [][(loaded /\ config' # config) =>
            pc \in {"decode", "webroot", "hook", "gcs"}]_vars

C7_Witness ==
    /\ loaded
    /\ pc = "webroot"
    /\ config # pre

\* C8: a handle is open exactly while a call is between its successful open
\* and its return; whenever no call is running, no handle is open.
C8_HandleClosed ==
    /\ handles = (IF pc = "idle" THEN 0 ELSE 1)
    /\ pc = "idle" => r = NoFile

C8_Witness ==
    /\ pc = "idle" /\ err = "decode"
    /\ called
    /\ handles = 0

WellTyped(doc) ==
    /\ doc.redirects.t \in {"absent", "null", "object"}
    /\ doc.buckets.t \in {"absent", "null", "object"}
    /\ \A k \in {"webroot", "index", "hook", "gcs"} :
          doc[k].t \in {"absent", "null", "string"}

SuppliedMap(j) == IF j.t = "object" THEN MakeMap(j.kv) ELSE NilMap

\* C9: at start-up every well-typed document loads without error, whatever
\* its buckets and redirects hold, and Index, Redirects and Buckets are then
\* exactly what the document gives: empty or nil where it gives nothing.
C9_NoValidationNoDefault ==
    (pc = "return" /\ r.kind = "doc" /\ WellTyped(r.doc)) =>
        /\ err = "nil"
        /\ config.Index = (IF r.doc.index.t = "string" THEN r.doc.index.s ELSE "")
        /\ config.Redirects = SuppliedMap(r.doc.redirects)
        /\ config.Buckets = SuppliedMap(r.doc.buckets)

C9_Witness ==
    /\ ReturnsNil
    /\ r.doc.buckets = JObject(BucketsNoDefault)
    /\ r.doc.redirects = JObject(RedirectsUnchecked)
    /\ r.doc.index.t = "absent"
    /\ config.Buckets = MakeMap(BucketsNoDefault)
    /\ config.Redirects = MakeMap(RedirectsUnchecked)
    /\ config.Index = ""

\* The config a running call leaves behind according to the specification:
\* fully decoded and defaulted on success, untouched on failure.
PostCall == IF DecodeFails(r) THEN pre ELSE Loaded(pre, r.doc)

\* C10: while a call runs, the global config is either the config from
\* before the call or the fully defaulted config of after it.
C10_NoIntermediateConfig ==
    pc # "idle" => config \in {pre, PostCall}

====
